---------------------------- MODULE Spec2Model ----------------------------
(***************************************************************************)
(* The AdvancedCalculator controller of scientificcalculator.py: the       *)
(* expression buffer (self.operator), the display variable, the memory     *)
(* register, the last result, the history and its list surface, and the    *)
(* two mode flags, with one action per button / handler.                   *)
(*                                                                         *)
(* Texts are sequences of one-character strings.  eval() is modelled by a  *)
(* recursive-descent evaluator of the Python expressions that can be       *)
(* typed; a value the model cannot represent exactly (an integer above     *)
(* MaxInt, a float that is no short decimal, a text that depends on the    *)
(* build) is the outcome "oor", and a handler whose evaluation has that    *)
(* outcome is not explored.  An int power that certainly has more digits   *)
(* than str() converts is the value "huge": the handlers assign it before  *)
(* formatting it raises.                                                   *)
(***************************************************************************)
EXTENDS Integers, Sequences, FiniteSets, TLC

VARIABLES
    operator,      \* self.operator: the expression buffer
    display,       \* self.display_var: the text of the display
    memory,        \* self.memory
    last_result,   \* self.last_result
    history,       \* self.history
    history_list,  \* the entries of the self.history_list Listbox
    angle_mode,    \* self.angle_mode: "rad" or "deg"
    full_mode,     \* self.full_mode
    evals,         \* log: the buffer and result of each successful calculate()
    last_event,    \* log: the handler that ran last, its argument, the buffer it found
    steps          \* the number of events still to be explored

vars == <<operator, display, memory, last_result, history, history_list,
          angle_mode, full_mode, evals, last_event, steps>>

(***************************************************************************)
(* Bounds of the exploration.                                              *)
(***************************************************************************)
MaxSteps == 4
MaxInt == 9999
\* The events explored in the runs of TrigSpec.
TrigSteps == 6
\* The events explored in the runs of PowerSpec.
PowerSteps == 9

(***************************************************************************)
(* Characters and texts.                                                   *)
(***************************************************************************)
Digits == {"0", "1", "2", "3", "4", "5", "6", "7", "8", "9"}

NameStart == {"m", "a", "t", "h", "s", "i", "n", "c", "o", "e", "x", "p",
              "q", "r", "l", "d", "g", "_"}

NameChars == NameStart \cup Digits

ExprChars == NameChars \cup {".", "+", "-", "*", "/", "(", ")"}

DigitVal(c) ==
    CASE c = "0" -> 0 [] c = "1" -> 1 [] c = "2" -> 2 [] c = "3" -> 3
      [] c = "4" -> 4 [] c = "5" -> 5 [] c = "6" -> 6 [] c = "7" -> 7
      [] c = "8" -> 8 [] c = "9" -> 9

DigitChar(d) ==
    CASE d = 0 -> "0" [] d = 1 -> "1" [] d = 2 -> "2" [] d = 3 -> "3"
      [] d = 4 -> "4" [] d = 5 -> "5" [] d = 6 -> "6" [] d = 7 -> "7"
      [] d = 8 -> "8" [] d = 9 -> "9"

Abs(n) == IF n < 0 THEN -n ELSE n

RECURSIVE Pow10(_)
Pow10(k) == IF k = 0 THEN 1 ELSE 10 * Pow10(k - 1)

RECURSIVE Pow5(_)
Pow5(k) == IF k = 0 THEN 1 ELSE 5 * Pow5(k - 1)

\* The tokens the handlers write into the buffer.
PercentText == <<"/", "1", "0", "0">>
PiText == <<"3", ".", "1", "4", "1", "5", "9", "2", "6", "5", "3", "5", "8",
            "9", "7", "9", "3">>
EText == <<"2", ".", "7", "1", "8", "2", "8", "1", "8", "2", "8", "4", "5",
           "9", "0", "4", "5">>
ErrorText == <<"E", "r", "r", "o", "r">>
MemoryClearedText == <<"M", "e", "m", "o", "r", "y", " ", "C", "l", "e", "a",
                       "r", "e", "d">>
MPrefix == <<"M", ":", " ">>
EqualsText == <<" ", "=", " ">>

FuncName(func) ==
    CASE func = "sin" -> <<"s", "i", "n">>
      [] func = "cos" -> <<"c", "o", "s">>
      [] func = "tan" -> <<"t", "a", "n">>
      [] func = "ln" -> <<"l", "n">>
      [] func = "exp" -> <<"e", "x", "p">>
      [] func = "sqrt" -> <<"s", "q", "r", "t">>

MathDot == <<"m", "a", "t", "h", ".">>
DegUnderscore == <<"d", "e", "g", "_">>

(***************************************************************************)
(* Values of the evaluator.  n, s: an int is n; a float is n / 10^s; o     *)
(* names a float constant ("pi", "e", with n its sign) or an object.       *)
(***************************************************************************)
IntV(n) == [k |-> "int", n |-> n, s |-> 0, o |-> ""]
FloatV(m, s) == [k |-> "float", n |-> m, s |-> s, o |-> ""]
ConstV(name, sign) == [k |-> "float", n |-> sign, s |-> 0, o |-> name]
ObjV(name) == [k |-> "obj", n |-> 0, s |-> 0, o |-> name]
\* An int of more digits than str() converts (n is its sign): arithmetic
\* holds it, str() and an f-string raise ValueError on it.
Huge(sign) == [k |-> "huge", n |-> sign, s |-> 0, o |-> ""]
Fail == [k |-> "fail", n |-> 0, s |-> 0, o |-> ""]
Oor == [k |-> "oor", n |-> 0, s |-> 0, o |-> ""]

Bad(v) == v.k \in {"fail", "oor"}
IsNum(v) == v.k \in {"int", "float"}
IsConst(v) == v.k = "float" /\ v.o # ""
IsZero(v) == IsNum(v) /\ v.o = "" /\ v.n = 0
IsNeg(v) == IsNum(v) /\ v.n < 0
\* A float n / 10^s that binary64 holds exactly: its denominator is a power of 2.
IsExact(v) == v.o = "" /\ v.n % Pow5(v.s) = 0

\* n / 10^s with the trailing zeros of the fraction dropped.
RECURSIVE Canon(_, _)
Canon(m, s) ==
    IF s > 0 /\ m % 10 = 0 THEN Canon(m \div 10, s - 1) ELSE FloatV(m, s)

\* The floats of the model: at most 4 fraction digits (repr() then writes no
\* exponent) and a mantissa within MaxInt.
MkFloat(m, s) ==
    LET c == Canon(m, s)
    IN  IF c.s > 4 \/ Abs(c.n) > MaxInt THEN Oor ELSE c

MkInt(n) == IF Abs(n) > MaxInt THEN Oor ELSE IntV(n)

\* The arguments at which the model knows the trigonometric functions.
TrigArgs == {9, 90}

\* repr() of |f(n)| for the trigonometric value named o, "f(n)": the digits
\* binary64 arithmetic gives for math.sin, ..., deg_sin, ... at TrigArgs.
TrigRepr(o) ==
    CASE o = "sin(9)" ->
               <<"0", ".", "4", "1", "2", "1", "1", "8", "4", "8", "5",
                    "2", "4", "1", "7", "5", "6", "6">>
      [] o = "cos(9)" ->
               <<"0", ".", "9", "1", "1", "1", "3", "0", "2", "6", "1",
                    "8", "8", "4", "6", "7", "6", "9">>
      [] o = "tan(9)" ->
               <<"0", ".", "4", "5", "2", "3", "1", "5", "6", "5", "9",
                    "4", "4", "1", "8", "0", "9", "8", "5">>
      [] o = "deg_sin(9)" ->
               <<"0", ".", "1", "5", "6", "4", "3", "4", "4", "6", "5",
                    "0", "4", "0", "2", "3", "0", "8", "7">>
      [] o = "deg_cos(9)" ->
               <<"0", ".", "9", "8", "7", "6", "8", "8", "3", "4", "0",
                    "5", "9", "5", "1", "3", "7", "8">>
      [] o = "deg_tan(9)" ->
               <<"0", ".", "1", "5", "8", "3", "8", "4", "4", "4", "0",
                    "3", "2", "4", "5", "3", "6", "2", "7">>
      [] o = "sin(90)" ->
               <<"0", ".", "8", "9", "3", "9", "9", "6", "6", "6", "3",
                    "6", "0", "0", "5", "5", "7", "9">>
      [] o = "cos(90)" ->
               <<"0", ".", "4", "4", "8", "0", "7", "3", "6", "1", "6",
                    "1", "2", "9", "1", "7", "0", "1">>
      [] o = "tan(90)" ->
               <<"1", ".", "9", "9", "5", "2", "0", "0", "4", "1", "2",
                    "2", "0", "8", "2", "4", "2">>
      [] o = "deg_cos(90)" ->
               <<"6", ".", "1", "2", "3", "2", "3", "3", "9", "9", "5",
                    "7", "3", "6", "7", "6", "6", "e", "-", "1", "7">>
      [] o = "deg_tan(90)" ->
               <<"1", ".", "6", "3", "3", "1", "2", "3", "9", "3", "5",
                    "3", "1", "9", "5", "3", "7", "e", "+", "1", "6">>

\* f(n) for n in TrigArgs: deg_sin(90) is exactly 1.0; every other value is
\* a float constant named "f(n)" with its sign.
TrigValue(f, n) ==
    IF f = "deg_sin" /\ n = 90 THEN FloatV(1, 0)
    ELSE ConstV(f \o "(" \o ToString(n) \o ")",
                IF f \in {"cos", "tan"} THEN -1 ELSE 1)

(***************************************************************************)
(* str() of a value.                                                       *)
(***************************************************************************)
RECURSIVE NatStr(_)
NatStr(n) ==
    IF n < 10 THEN <<DigitChar(n)>>
    ELSE NatStr(n \div 10) \o <<DigitChar(n % 10)>>

RECURSIVE FracStr(_, _)
FracStr(f, s) ==
    IF s = 0 THEN <<>>
    ELSE FracStr(f \div 10, s - 1) \o <<DigitChar(f % 10)>>

SignStr(n) == IF n < 0 THEN <<"-">> ELSE <<>>

FloatStr(m, s) ==
    SignStr(m) \o NatStr(Abs(m) \div Pow10(s)) \o <<".">>
      \o (IF s = 0 THEN <<"0">> ELSE FracStr(Abs(m) % Pow10(s), s))

ObjStr(o) ==
    CASE o = "()" -> <<"(", ")">>
      [] o = "..." -> <<"E", "l", "l", "i", "p", "s", "i", "s">>
      [] OTHER -> <<"<", "b", "u", "i", "l", "t", "-", "i", "n", " ",
                    "f", "u", "n", "c", "t", "i", "o", "n", " ">>
                    \o FuncName(o) \o <<">">>

\* The objects whose str() does not depend on the build or on an address.
StrKnown(v) ==
    v.k = "obj" => v.o \in {"()", "...", "sin", "cos", "tan", "exp", "sqrt"}

Str(v) ==
    CASE v.k = "int" -> SignStr(v.n) \o NatStr(Abs(v.n))
      [] v.k = "float" /\ v.o = "" -> FloatStr(v.n, v.s)
      [] v.k = "float" /\ v.o = "pi" -> SignStr(v.n) \o PiText
      [] v.k = "float" /\ v.o = "e" -> SignStr(v.n) \o EText
      [] v.k = "float" /\ v.o \notin {"", "pi", "e"} ->
           SignStr(v.n) \o TrigRepr(v.o)
      [] v.k = "obj" -> ObjStr(v.o)

\* What StringVar.set(value) shows: Tk renders a tuple as a list, the empty
\* tuple as the empty text, and every other value as its str().
TkStr(v) == IF v = ObjV("()") THEN <<>> ELSE Str(v)

(***************************************************************************)
(* Arithmetic of the evaluator (Python 3 semantics on int and float).      *)
(***************************************************************************)
\* |a| * |b| exceeds MaxInt, decided without computing a product above it.
MulOver(a, b) == a # 0 /\ Abs(b) > MaxInt \div Abs(a)

\* floor(a / b) for b # 0.
FloorDiv(a, b) == IF b > 0 THEN a \div b ELSE (-a) \div (-b)

\* acc * a^b, built upwards so that an overflow ends the recursion.
RECURSIVE PowAcc(_, _, _)
PowAcc(a, b, acc) ==
    IF b = 0 THEN IntV(acc)
    ELSE IF MulOver(acc, a) THEN Oor
    ELSE PowAcc(a, b - 1, acc * a)

\* The limit of str() on an int: sys.int_info.default_max_str_digits.
MaxStrDigits == 4300

\* A lower bound of 10 * log10(a) for a >= 2 (2 >= 10^0.3, 4 >= 10^0.6,
\* 8 >= 10^0.9).
RECURSIVE TenthsLog(_)
TenthsLog(a) ==
    IF a >= 10 THEN 10 + TenthsLog(a \div 10)
    ELSE IF a >= 8 THEN 9
    ELSE IF a >= 4 THEN 6
    ELSE 3

\* a ** b (|a| >= 2) certainly has more than MaxStrDigits digits.
HugePow(a, b) == TenthsLog(Abs(a)) * b >= 10 * MaxStrDigits

\* a ** b for ints, b >= 0.
IntPow(a, b) ==
    IF b = 0 \/ a = 1 THEN IntV(1)
    ELSE IF a = 0 THEN IntV(0)
    ELSE IF a = -1 THEN IntV(IF b % 2 = 0 THEN 1 ELSE -1)
    ELSE IF HugePow(a, b) THEN Huge(IF a < 0 /\ b % 2 = 1 THEN -1 ELSE 1)
    ELSE PowAcc(a, b, 1)

\* The digits of num / den (0 <= num < den) after s fraction digits are
\* written: the float acc / 10^s once the remainder is 0, "oor" when more
\* than 4 fraction digits would be needed.
RECURSIVE FracDigits(_, _, _, _)
FracDigits(num, den, acc, s) ==
    IF num = 0 THEN [ok |-> TRUE, m |-> acc, s |-> s]
    ELSE IF s = 4 \/ acc > MaxInt THEN [ok |-> FALSE, m |-> 0, s |-> 0]
    ELSE FracDigits((num * 10) % den, den, acc * 10 + (num * 10) \div den, s + 1)

\* The float p / q (q # 0, p # 0), correctly rounded: exact when it is a
\* short decimal.
Quotient(p, q) ==
    LET neg == (p < 0) # (q < 0)
        ap == Abs(p)
        aq == Abs(q)
        ip == ap \div aq
        d == FracDigits(ap % aq, aq, ip, 0)
    IN  IF ip > MaxInt \/ ~d.ok THEN Oor
        ELSE MkFloat(IF neg THEN -d.m ELSE d.m, d.s)

\* a and b as mantissas over the common scale.
Scale(a, b) == IF a.s > b.s THEN a.s ELSE b.s
Mant(a, sc) == a.n * Pow10(sc - a.s)

TrueDiv(a, b) ==
    IF IsZero(b) THEN Fail
    ELSE IF IsConst(a) \/ IsConst(b) THEN Oor
    ELSE IF ~IsExact(a) \/ ~IsExact(b) THEN Oor
    ELSE IF a.n = 0 THEN (IF b.n < 0 THEN Oor ELSE FloatV(0, 0))
    ELSE Quotient(Mant(a, Scale(a, b)), Mant(b, Scale(a, b)))

\* float(v) of an int within MaxInt is exact.
ToFloat(v) == IF v.k = "int" THEN FloatV(v.n, 0) ELSE v

IntOp(op, a, b) ==
    CASE op = "+" -> MkInt(a.n + b.n)
      [] op = "-" -> MkInt(a.n - b.n)
      [] op = "*" -> IF MulOver(a.n, b.n) THEN Oor ELSE MkInt(a.n * b.n)
      [] op = "/" -> TrueDiv(a, b)
      [] op = "//" -> IF b.n = 0 THEN Fail ELSE IntV(FloorDiv(a.n, b.n))
      [] op = "**" -> IF b.n >= 0 THEN IntPow(a.n, b.n)
                      ELSE IF a.n = 0 THEN Fail ELSE Oor

FloatOp(op, a, b) ==
    CASE op = "/" -> TrueDiv(a, b)
      [] op = "//" -> IF IsZero(b) THEN Fail ELSE Oor
      [] op = "**" -> Oor
      [] op \in {"+", "-"} /\ IsZero(b) -> ToFloat(a)
      [] op = "+" /\ IsZero(a) -> ToFloat(b)
      [] OTHER ->
           IF IsConst(a) \/ IsConst(b) \/ ~IsExact(a) \/ ~IsExact(b) THEN Oor
           ELSE LET sc == Scale(a, b)
                IN  CASE op = "+" -> MkFloat(Mant(a, sc) + Mant(b, sc), sc)
                      [] op = "-" -> MkFloat(Mant(a, sc) - Mant(b, sc), sc)
                      [] op = "*" ->
                           IF MulOver(a.n, b.n) THEN Oor
                           ELSE IF a.n * b.n = 0 /\ (a.n < 0 \/ b.n < 0) THEN Oor
                           ELSE MkFloat(a.n * b.n, a.s + b.s)

\* a op b with a or b a huge int: a sum with an int of the model keeps the
\* huge term's sign, a sum with a float is an OverflowError (the int does not
\* convert to float).
HugeOp(op, a, b) ==
    IF op \notin {"+", "-"} THEN Oor
    ELSE IF a.k = "float" \/ b.k = "float" THEN Fail
    ELSE IF a.k = "huge" /\ b.k = "huge" THEN Oor
    ELSE IF a.k = "huge" THEN a
    ELSE IF op = "+" THEN b ELSE Huge(-b.n)

\* a op b: the empty tuple adds to itself and repeats under an int; every
\* other use of an object is a TypeError.
BinOp(op, a, b) ==
    IF a.k = "huge" \/ b.k = "huge"
    THEN IF a.k = "obj" \/ b.k = "obj" THEN Oor ELSE HugeOp(op, a, b)
    ELSE IF a.k = "obj" \/ b.k = "obj"
    THEN IF op = "+" /\ a = ObjV("()") /\ b = ObjV("()") THEN ObjV("()")
         ELSE IF op = "*" /\ a = ObjV("()") /\ b.k = "int" THEN ObjV("()")
         ELSE IF op = "*" /\ a.k = "int" /\ b = ObjV("()") THEN ObjV("()")
         ELSE Fail
    ELSE IF a.k = "int" /\ b.k = "int" THEN IntOp(op, a, b)
    ELSE FloatOp(op, a, b)

Negate(a) ==
    IF a.k = "obj" THEN Fail
    ELSE IF a.k = "huge" THEN Huge(-a.n)
    ELSE IF a.k = "int" THEN IntV(-a.n)
    ELSE IF IsZero(a) THEN Oor
    ELSE [a EXCEPT !.n = -a.n]

Positive(a) == IF a.k = "obj" THEN Fail ELSE a

\* The k >= 0 with k * k = n, or -1.
RECURSIVE IntSqrt(_, _)
IntSqrt(n, k) ==
    IF k * k = n THEN k ELSE IF k * k > n THEN -1 ELSE IntSqrt(n, k + 1)

\* math.sqrt(x): a ValueError below 0, exact on the squares.
Sqrt(x) ==
    IF IsConst(x) THEN (IF x.n < 0 THEN Fail ELSE Oor)
    ELSE IF x.n < 0 THEN Fail
    ELSE IF ~IsExact(x) \/ x.s \notin {0, 2, 4} THEN Oor
    ELSE LET r == IntSqrt(x.n, 0)
         IN  IF r < 0 THEN Oor ELSE MkFloat(r, x.s \div 2)

\* f(x) for the callables of safe_dict: math.sin, ..., deg_sin, ...
Call(f, x) ==
    IF f.k # "obj" \/ f.o \in {"()", "...", "math"} THEN Fail
    ELSE IF x.k \in {"obj", "huge"} THEN Fail
    ELSE CASE f.o = "sqrt" -> Sqrt(x)
           [] f.o # "exp" /\ x.o = "" /\ x.s = 0 /\ x.n \in TrigArgs ->
                TrigValue(f.o, x.n)
           [] f.o \in {"sin", "tan", "deg_sin", "deg_tan"} ->
                IF IsZero(x) THEN FloatV(0, 0) ELSE Oor
           [] f.o \in {"cos", "exp", "deg_cos"} ->
                IF IsZero(x) THEN FloatV(1, 0) ELSE Oor

\* The attribute `name` of v: the math module has sin, cos, tan, exp, sqrt
\* and e among the names that can be typed (and, in some versions, exp2 and
\* expm1); it has no ln.
Attr(v, name) ==
    IF v # ObjV("math") THEN Fail
    ELSE CASE name \in {<<"s", "i", "n">>, <<"c", "o", "s">>, <<"t", "a", "n">>,
                        <<"e", "x", "p">>, <<"s", "q", "r", "t">>} ->
                ObjV(CHOOSE f \in {"sin", "cos", "tan", "exp", "sqrt"} :
                        FuncName(f) = name)
           [] name = <<"e">> -> ConstV("e", 1)
           [] name \in {<<"e", "x", "p", "2">>, <<"e", "x", "p", "m", "1">>} -> Oor
           [] OTHER -> Fail

\* The global `name` of safe_dict; any other name is a NameError.
Global(name) ==
    CASE name = <<"m", "a", "t", "h">> -> ObjV("math")
      [] name = DegUnderscore \o <<"s", "i", "n">> -> ObjV("deg_sin")
      [] name = DegUnderscore \o <<"c", "o", "s">> -> ObjV("deg_cos")
      [] name = DegUnderscore \o <<"t", "a", "n">> -> ObjV("deg_tan")
      [] OTHER -> Fail

(***************************************************************************)
(* The evaluator: Python's expression grammar over the characters that can *)
(* be typed.  A parse result is [v |-> value, i |-> next position]; the    *)
(* first failure in evaluation order decides.                              *)
(***************************************************************************)
At(s, i) == IF i <= Len(s) THEN s[i] ELSE ""

Res(v, i) == [v |-> v, i |-> i]

\* The end of the run of characters of `set` that starts at i.
RECURSIVE RunEnd(_, _, _)
RunEnd(s, i, set) ==
    IF i <= Len(s) /\ s[i] \in set THEN RunEnd(s, i + 1, set) ELSE i

Slice(s, i, j) == SubSeq(s, i, j - 1)

\* The value of a run of digits, or -1 above MaxInt.
RECURSIVE DigitsVal(_, _)
DigitsVal(ds, acc) ==
    IF ds = <<>> THEN acc
    ELSE IF acc * 10 + DigitVal(Head(ds)) > MaxInt THEN -1
    ELSE DigitsVal(Tail(ds), acc * 10 + DigitVal(Head(ds)))

AllZeros(ds) == \A j \in 1..Len(ds) : ds[j] = "0"

\* The digits without their trailing zeros.
RECURSIVE StripZeros(_)
StripZeros(ds) ==
    IF ds # <<>> /\ ds[Len(ds)] = "0" THEN StripZeros(SubSeq(ds, 1, Len(ds) - 1))
    ELSE ds

\* An int literal: leading zeros are a SyntaxError unless the value is zero.
IntLiteral(ds) ==
    IF Len(ds) > 1 /\ ds[1] = "0" /\ ~AllZeros(ds) THEN Fail
    ELSE LET n == DigitsVal(ds, 0) IN IF n < 0 THEN Oor ELSE IntV(n)

\* A float literal ip.fp : repr() gives the literal back when it is short.
FloatLiteral(ip, fp) ==
    IF ip \o <<".">> \o fp = PiText THEN ConstV("pi", 1)
    ELSE IF ip \o <<".">> \o fp = EText THEN ConstV("e", 1)
    ELSE LET f == StripZeros(fp)
             n == DigitsVal(ip \o f, 0)
         IN  IF Len(f) > 4 \/ n < 0 THEN Oor ELSE MkFloat(n, Len(f))

\* The number token at i (a digit, or "." before a digit).
Number(s, i) ==
    LET j == RunEnd(s, i, Digits)
        isFloat == At(s, j) = "."
        e == IF isFloat THEN RunEnd(s, j + 1, Digits) ELSE j
        v == IF isFloat THEN FloatLiteral(Slice(s, i, j), Slice(s, j + 1, e))
             ELSE IntLiteral(Slice(s, i, j))
    IN  IF At(s, e) \in {"m", "d"} THEN Res(Fail, e)
        ELSE IF At(s, e) \in NameStart THEN Res(Oor, e)
        ELSE Res(v, e)

RECURSIVE ParseExpr(_, _), ExprRest(_, _, _), ParseTerm(_, _),
          TermRest(_, _, _), ParseFactor(_, _), ParsePower(_, _),
          Trailers(_, _, _), ParseAtom(_, _)

\* "(" expr ")" : r is the parse of expr.
CloseParen(s, r) ==
    IF Bad(r.v) THEN r
    ELSE IF At(s, r.i) = ")" THEN Res(r.v, r.i + 1)
    ELSE Res(Fail, r.i)

ParseAtom(s, i) ==
    CASE At(s, i) = "(" ->
           IF At(s, i + 1) = ")" THEN Res(ObjV("()"), i + 2)
           ELSE CloseParen(s, ParseExpr(s, i + 1))
      [] At(s, i) \in Digits -> Number(s, i)
      [] At(s, i) = "." ->
           IF At(s, i + 1) \in Digits THEN Number(s, i)
           ELSE IF At(s, i + 1) = "." /\ At(s, i + 2) = "."
                THEN (IF At(s, i + 3) \in NameChars THEN Res(Fail, i)
                      ELSE Res(ObjV("..."), i + 3))
           ELSE Res(Fail, i)
      [] At(s, i) \in NameStart ->
           Res(Global(Slice(s, i, RunEnd(s, i, NameChars))),
               RunEnd(s, i, NameChars))
      [] OTHER -> Res(Fail, i)

\* w is the value of a call or an attribute reference that ends before e.
AfterTrailer(s, e, w) == IF Bad(w) THEN Res(w, e) ELSE Trailers(s, e, w)

\* v "(" expr ")" : r is the parse of expr.
CallWith(s, v, r) ==
    IF Bad(r.v) THEN r
    ELSE IF At(s, r.i) # ")" THEN Res(Fail, r.i)
    ELSE AfterTrailer(s, r.i + 1, Call(v, r.v))

\* The calls and attribute references that follow a primary of value v.
Trailers(s, i, v) ==
    CASE At(s, i) = "(" ->
           IF At(s, i + 1) = ")" THEN Res(Fail, i)
           ELSE CallWith(s, v, ParseExpr(s, i + 1))
      [] At(s, i) = "." /\ At(s, i + 1) \in NameStart ->
           AfterTrailer(s, RunEnd(s, i + 1, NameChars),
                        Attr(v, Slice(s, i + 1, RunEnd(s, i + 1, NameChars))))
      [] At(s, i) = "." /\ At(s, i + 1) \notin Digits -> Res(Fail, i)
      [] OTHER -> Res(v, i)

\* a op r.v, where r is the parse of the right operand.
Apply(op, a, r) == IF Bad(r.v) THEN r ELSE Res(BinOp(op, a, r.v), r.i)

\* a is the parse of an atom.
Primary(s, a) == IF Bad(a.v) THEN a ELSE Trailers(s, a.i, a.v)

\* p is the parse of a primary: primary ["**" factor].
PowerOf(s, p) ==
    IF Bad(p.v) THEN p
    ELSE IF At(s, p.i) = "*" /\ At(s, p.i + 1) = "*"
         THEN Apply("**", p.v, ParseFactor(s, p.i + 2))
    ELSE p

ParsePower(s, i) == PowerOf(s, Primary(s, ParseAtom(s, i)))

\* r is the parse of the operand of a unary sign.
Signed(sign, r) ==
    IF Bad(r.v) THEN r
    ELSE Res(IF sign = "-" THEN Negate(r.v) ELSE Positive(r.v), r.i)

ParseFactor(s, i) ==
    IF At(s, i) \in {"+", "-"} THEN Signed(At(s, i), ParseFactor(s, i + 1))
    ELSE ParsePower(s, i)

\* w is the parse of a term so far.
TermGo(s, w) == IF Bad(w.v) THEN w ELSE TermRest(s, w.i, w.v)

MulOp(s, i) == IF At(s, i) = "/" /\ At(s, i + 1) = "/" THEN "//" ELSE At(s, i)

TermRest(s, i, acc) ==
    IF At(s, i) \in {"*", "/"}
    THEN TermGo(s, Apply(MulOp(s, i), acc,
                         ParseFactor(s, i + (IF MulOp(s, i) = "//" THEN 2 ELSE 1))))
    ELSE Res(acc, i)

ParseTerm(s, i) == TermGo(s, ParseFactor(s, i))

\* w is the parse of a sum so far.
ExprGo(s, w) == IF Bad(w.v) THEN w ELSE ExprRest(s, w.i, w.v)

ExprRest(s, i, acc) ==
    IF At(s, i) \in {"+", "-"}
    THEN ExprGo(s, Apply(At(s, i), acc, ParseTerm(s, i + 1)))
    ELSE Res(acc, i)

ParseExpr(s, i) == ExprGo(s, ParseTerm(s, i))

\* r is the parse of s from its first character.
Whole(s, r) ==
    IF Bad(r.v) THEN r.v
    ELSE IF r.i = Len(s) + 1 THEN r.v
    ELSE Fail

\* eval(s, safe_dict, {}): the value, Fail for any exception, Oor for a value
\* outside the model.  A character that cannot begin or continue an
\* expression here (it comes from the text of an object) fails every parse.
PyEval(s) ==
    IF \E j \in 1..Len(s) : s[j] \notin ExprChars THEN Fail
    ELSE Whole(s, ParseExpr(s, 1))

(***************************************************************************)
(* The controller.  Each handler is one action, run to completion.         *)
(***************************************************************************)
\* The event loop dispatches one more event to handler `op`.
Event(op, arg) ==
    /\ steps > 0
    /\ steps' = steps - 1
    /\ last_event' = [op |-> op, arg |-> arg, buf |-> operator]

\* The keys of the number pad and '%' (the characters key_event accepts).
Keys == Digits \cup {".", "+", "-", "*", "/", "(", ")", "%"}
\* The function buttons; "sqrt" stands for the button labelled with the
\* square-root sign.
Funcs == {"sin", "cos", "tan", "ln", "exp", "sqrt"}
Consts == {"pi", "e"}

\* The buttons pressed in the runs of Spec: some of the number pad, every
\* function button and one of the constants.
SpecKeys == {"0", "1", "4", "9", ".", "-", "/", "(", ")", "%"}
SpecFuncs == Funcs
SpecConsts == {"pi"}

\* The calculator as __init__ leaves it.
Constructed ==
    /\ operator = <<>>
    /\ display = <<>>
    /\ memory = IntV(0)
    /\ last_result = IntV(0)
    /\ history = <<>>
    /\ history_list = <<>>
    /\ angle_mode = "rad"
    /\ full_mode = TRUE
    /\ evals = <<>>
    /\ last_event = [op |-> "__init__", arg |-> "", buf |-> <<>>]

Init == Constructed /\ steps = MaxSteps

\* A variant of AppendText that appends '%' as it is.
AppendText_Verbatim(value) == <<value>>

\* What append_to_operator adds to the buffer: "/100" for '%', str(value)
\* otherwise (nothing for the empty string).
AppendText(value) ==
    IF value = "%" THEN PercentText
    ELSE IF value = "" THEN <<>>
    ELSE <<value>>

append_to_operator(value) ==
    /\ Event("append_to_operator", value)
    /\ operator' = operator \o AppendText(value)
    /\ display' = operator'
    /\ UNCHANGED <<memory, last_result, history, history_list, angle_mode,
                   full_mode, evals>>

\* A variant of FunctionText that writes the native token in both modes.
FunctionText_AlwaysNative(func, mode) == MathDot \o FuncName(func) \o <<"(">>

FunctionText(func, mode) ==
    IF func \in {"sin", "cos", "tan"}
    THEN IF mode = "deg" THEN DegUnderscore \o FuncName(func) \o <<"(">>
         ELSE MathDot \o FuncName(func) \o <<"(">>
    ELSE MathDot \o FuncName(func) \o <<"(">>

append_function(func) ==
    /\ Event("append_function", func)
    /\ operator' = operator \o FunctionText(func, angle_mode)
    /\ display' = operator'
    /\ UNCHANGED <<memory, last_result, history, history_list, angle_mode,
                   full_mode, evals>>

ConstText(const) == IF const = "pi" THEN PiText ELSE EText

append_constant(const) ==
    /\ Event("append_constant", const)
    /\ operator' = operator \o ConstText(const)
    /\ display' = operator'
    /\ UNCHANGED <<memory, last_result, history, history_list, angle_mode,
                   full_mode, evals>>

\* str(self.last_result) raises ValueError on a huge int: the handler ends
\* there, nothing is appended.
append_ans ==
    /\ Event("append_ans", "")
    /\ IF last_result.k = "huge"
       THEN UNCHANGED <<operator, display>>
       ELSE /\ operator' = operator \o Str(last_result)
            /\ display' = operator'
    /\ UNCHANGED <<memory, last_result, history, history_list, angle_mode,
                   full_mode, evals>>

\* A variant of clear_all that also resets the memory register.
clear_all_ResetsMemory ==
    /\ Event("clear_all", "")
    /\ operator' = <<>>
    /\ display' = <<>>
    /\ memory' = IntV(0)
    /\ UNCHANGED <<last_result, history, history_list, angle_mode,
                   full_mode, evals>>

clear_all ==
    /\ Event("clear_all", "")
    /\ operator' = <<>>
    /\ display' = <<>>
    /\ UNCHANGED <<memory, last_result, history, history_list, angle_mode,
                   full_mode, evals>>

clear_entry ==
    /\ Event("clear_entry", "")
    /\ operator' = <<>>
    /\ display' = <<>>
    /\ UNCHANGED <<memory, last_result, history, history_list, angle_mode,
                   full_mode, evals>>

\* A variant of DropLast that removes a whole "/100" at once.
DropLast_Token(s) ==
    IF s = <<>> THEN <<>>
    ELSE IF Len(s) >= 4 /\ SubSeq(s, Len(s) - 3, Len(s)) = PercentText
         THEN SubSeq(s, 1, Len(s) - 4)
         ELSE SubSeq(s, 1, Len(s) - 1)

\* operator[:-1]
DropLast(s) == IF s = <<>> THEN <<>> ELSE SubSeq(s, 1, Len(s) - 1)

\* A variant of backspace that leaves the display as it was.
backspace_StaleDisplay ==
    /\ Event("backspace", "")
    /\ operator' = DropLast(operator)
    /\ UNCHANGED <<display, memory, last_result, history, history_list,
                   angle_mode, full_mode, evals>>

backspace ==
    /\ Event("backspace", "")
    /\ operator' = DropLast(operator)
    /\ display' = operator'
    /\ UNCHANGED <<memory, last_result, history, history_list, angle_mode,
                   full_mode, evals>>

\* A variant of ShowError that keeps the buffer.
ShowError_KeepsBuffer ==
    /\ display' = ErrorText
    /\ operator' = operator

\* The except branch of calculate, memory_add and memory_subtract.
ShowError ==
    /\ display' = ErrorText
    /\ operator' = <<>>

\* A variant of HistoryEntry built after the buffer was overwritten by the
\* result.
HistoryEntry_AfterAssign(expr, result) == Str(result) \o EqualsText \o Str(result)

HistoryEntry(expr, result) == expr \o EqualsText \o Str(result)

\* The history list surface after a successful evaluation.
ListInsert(list, full, entry) == IF full THEN Append(list, entry) ELSE list

\* A variant of CalculateWith whose except branch also resets the last
\* result.
CalculateWith_ResetsLastResult(result) ==
    /\ Event("calculate", "")
    /\ result # Oor
    /\ StrKnown(result)
    /\ IF result = Fail \/ result.k = "huge"
       THEN /\ ShowError
            /\ last_result' = IntV(0)
            /\ UNCHANGED <<history, history_list, evals>>
       ELSE /\ last_result' = result
            /\ display' = TkStr(result)
            /\ history' = Append(history, HistoryEntry(operator, result))
            /\ history_list' =
                   ListInsert(history_list, full_mode,
                              HistoryEntry(operator, result))
            /\ operator' = Str(result)
            /\ evals' = Append(evals, [buf |-> operator, res |-> result])
    /\ UNCHANGED <<memory, angle_mode, full_mode>>

\* calculate() when eval(expression, safe_dict, {}) gave `result`.  A huge
\* int is assigned to last_result before the f-string of the history entry
\* raises ValueError, which the except branch takes for a failure.
CalculateWith(result) ==
    /\ Event("calculate", "")
    /\ result # Oor
    /\ StrKnown(result)
    /\ IF result = Fail
       THEN /\ ShowError
            /\ UNCHANGED <<last_result, history, history_list, evals>>
       ELSE IF result.k = "huge"
       THEN /\ last_result' = result
            /\ ShowError
            /\ UNCHANGED <<history, history_list, evals>>
       ELSE /\ last_result' = result
            /\ display' = TkStr(result)
            /\ history' = Append(history, HistoryEntry(operator, result))
            /\ history_list' =
                   ListInsert(history_list, full_mode,
                              HistoryEntry(operator, result))
            /\ operator' = Str(result)
            /\ evals' = Append(evals, [buf |-> operator, res |-> result])
    /\ UNCHANGED <<memory, angle_mode, full_mode>>

\* A variant of calculate that evaluates a leading trigonometric token as
\* the variant of the angle mode in force when '=' is pressed.
calculate_ModeAtEvaluation ==
    CalculateWith(PyEval(
        LET toks == {p \in {"sin", "cos", "tan"} \X {"rad", "deg"} :
                        /\ Len(operator) >= Len(FunctionText(p[1], p[2]))
                        /\ SubSeq(operator, 1, Len(FunctionText(p[1], p[2])))
                               = FunctionText(p[1], p[2])}
        IN  IF toks = {} THEN operator
            ELSE LET p == CHOOSE q \in toks : TRUE
                 IN  FunctionText(p[1], angle_mode)
                       \o SubSeq(operator, Len(FunctionText(p[1], p[2])) + 1,
                                 Len(operator))))

calculate == CalculateWith(PyEval(operator))

memory_clear ==
    /\ Event("memory_clear", "")
    /\ memory' = IntV(0)
    /\ display' = MemoryClearedText
    /\ UNCHANGED <<operator, last_result, history, history_list, angle_mode,
                   full_mode, evals>>

\* str(self.memory) raises ValueError on a huge int: the handler ends there,
\* nothing is appended.
memory_recall ==
    /\ Event("memory_recall", "")
    /\ IF memory.k = "huge"
       THEN UNCHANGED <<operator, display>>
       ELSE /\ operator' = operator \o Str(memory)
            /\ display' = operator'
    /\ UNCHANGED <<memory, last_result, history, history_list, angle_mode,
                   full_mode, evals>>

\* A variant of CurrentValue that takes a failing evaluation for 0.
CurrentValue_FailureAsZero(s) ==
    IF s = <<>> \/ PyEval(s) = Fail THEN IntV(0) ELSE PyEval(s)

\* eval(self.operator, safe_dict, {}) if self.operator else 0
CurrentValue(s) == IF s = <<>> THEN IntV(0) ELSE PyEval(s)

\* A variant of MemoryUpdate that adds whatever the handler.
MemoryUpdate_AlwaysAdds(op, mem, value) ==
    IF Bad(value) THEN value ELSE BinOp("+", mem, value)

\* self.memory += current_value / self.memory -= current_value
MemoryUpdate(op, mem, value) == IF Bad(value) THEN value ELSE BinOp(op, mem, value)

\* A variant of MemoryWith that also takes the new register value for the
\* last result.
MemoryWith_SetsLastResult(op, new) ==
    /\ Event(op, "")
    /\ new # Oor
    /\ IF new = Fail
       THEN ShowError /\ UNCHANGED <<memory, last_result>>
       ELSE IF new.k = "huge"
       THEN memory' = new /\ last_result' = new /\ ShowError
       ELSE /\ memory' = new
            /\ last_result' = new
            /\ display' = MPrefix \o Str(new)
            /\ operator' = <<>>
    /\ UNCHANGED <<history, history_list, angle_mode, full_mode, evals>>

\* memory_add() / memory_subtract() (`op`) when the register would become
\* `new`.  A huge int is assigned to the register before the f-string of
\* the display raises ValueError, which the except branch takes for a failure.
MemoryWith(op, new) ==
    /\ Event(op, "")
    /\ new # Oor
    /\ IF new = Fail
       THEN ShowError /\ UNCHANGED memory
       ELSE IF new.k = "huge"
       THEN memory' = new /\ ShowError
       ELSE /\ memory' = new
            /\ display' = MPrefix \o Str(new)
            /\ operator' = <<>>
    /\ UNCHANGED <<last_result, history, history_list, angle_mode,
                   full_mode, evals>>

memory_add == MemoryWith("memory_add", MemoryUpdate("+", memory, CurrentValue(operator)))

memory_subtract == MemoryWith("memory_subtract", MemoryUpdate("-", memory, CurrentValue(operator)))

ToggledSign(s) ==
    IF s = <<>> THEN s
    ELSE IF s[1] = "-" THEN Tail(s) ELSE <<"-">> \o s

plus_minus ==
    /\ Event("plus_minus", "")
    /\ operator' = ToggledSign(operator)
    /\ display' = IF operator = <<>> THEN display ELSE operator'
    /\ UNCHANGED <<memory, last_result, history, history_list, angle_mode,
                   full_mode, evals>>

toggle_mode ==
    /\ Event("toggle_mode", "")
    /\ full_mode' = ~full_mode
    /\ UNCHANGED <<operator, display, memory, last_result, history,
                   history_list, angle_mode, evals>>

toggle_angle_mode ==
    /\ Event("toggle_angle_mode", "")
    /\ angle_mode' = IF angle_mode = "rad" THEN "deg" ELSE "rad"
    /\ UNCHANGED <<operator, display, memory, last_result, history,
                   history_list, full_mode, evals>>

Next ==
    \/ \E value \in SpecKeys : append_to_operator(value)
    \/ \E func \in SpecFuncs : append_function(func)
    \/ \E const \in SpecConsts : append_constant(const)
    \/ append_ans
    \/ clear_all
    \/ clear_entry
    \/ backspace
    \/ calculate
    \/ memory_clear
    \/ memory_recall
    \/ memory_add
    \/ memory_subtract
    \/ plus_minus
    \/ toggle_mode
    \/ toggle_angle_mode

Spec == Init /\ [][Next]_vars

\* The calculator driven from the keyboard alone, as key_event dispatches:
\* every character key, Return, BackSpace and 'c'.
KeyboardNext ==
    \/ \E value \in Keys : append_to_operator(value)
    \/ calculate
    \/ backspace
    \/ clear_all

KeyboardSpec == Init /\ [][KeyboardNext]_vars

\* The <Key> events of the runs of KeyEventSpec, as (event.char,
\* event.keysym): some character keys (their keysym plays no part once the
\* character is accepted), Return, BackSpace ("^H" stands for its control
\* character), c, C, a bare modifier key, which has no character, and a
\* letter that is bound to nothing.
KeyEvents ==
    {[char |-> k, keysym |-> k] : k \in {"0", "1", ".", "/", "(", "%"}}
        \cup {[char |-> "\r", keysym |-> "Return"],
              [char |-> "^H", keysym |-> "BackSpace"],
              [char |-> "c", keysym |-> "c"],
              [char |-> "C", keysym |-> "C"],
              [char |-> "", keysym |-> "Shift_L"],
              [char |-> "a", keysym |-> "a"]}

\* char in "0123456789.+-*/()%": a substring test, which the empty string
\* passes.
InKeyString(char) == char = "" \/ char \in Keys

\* key_event(event): the first branch that matches runs its handler; a key
\* that matches none is dispatched and changes nothing.
key_event(char, keysym) ==
    IF InKeyString(char) THEN append_to_operator(char)
    ELSE IF keysym = "Return" THEN calculate
    ELSE IF keysym = "BackSpace" THEN backspace
    ELSE IF keysym \in {"c", "C"} THEN clear_all
    ELSE /\ Event("key_event", keysym)
         /\ UNCHANGED <<operator, display, memory, last_result, history,
                        history_list, angle_mode, full_mode, evals>>

\* The calculator driven by <Key> events alone.
KeyEventNext == \E k \in KeyEvents : key_event(k.char, k.keysym)

KeyEventSpec == Init /\ [][KeyEventNext]_vars

\* The calculator used for trigonometry: the three function buttons, the
\* keys of the arguments 9 and 90, the Rad/Deg button and '='.
TrigInit == Constructed /\ steps = TrigSteps

TrigNext ==
    \/ \E func \in {"sin", "cos", "tan"} : append_function(func)
    \/ \E value \in {"9", "0", ")"} : append_to_operator(value)
    \/ toggle_angle_mode
    \/ calculate

TrigSpec == TrigInit /\ [][TrigNext]_vars

\* The calculator used for powers of 9: the keys 9 and *, '=', Ans, M+ and MR.
PowerInit == Constructed /\ steps = PowerSteps

PowerNext ==
    \/ \E value \in {"9", "*"} : append_to_operator(value)
    \/ calculate
    \/ append_ans
    \/ memory_add
    \/ memory_recall

PowerSpec == PowerInit /\ [][PowerNext]_vars

(***************************************************************************)
(* Properties of the calculator, checked under Spec; C9, which speaks of   *)
(* every key, under KeyboardSpec; C11 under TrigSpec; C13 and C14 under    *)
(* PowerSpec; C16 under KeyEventSpec.                                      *)
(***************************************************************************)

\* C1: whenever calculate() runs on a buffer whose evaluation fails, the
\* display shows "Error" and the buffer is empty afterwards.
C1_FailedCalculate ==
    [][(last_event'.op = "calculate" /\ PyEval(operator) = Fail)
           => (display' = ErrorText /\ operator' = <<>>)]_vars

\* calculate() has just failed on the division by zero "1/0".
C1_Witness ==
    /\ last_event.op = "calculate"
    /\ last_event.buf = <<"1", "/", "0">>
    /\ display = ErrorText
    /\ operator = <<>>

\* C2: after N successful evaluations by calculate() the history holds
\* exactly N entries in evaluation order, the i-th being the buffer of the
\* i-th evaluation, " = " and its result; no step changes, reorders or
\* removes an entry already recorded.
C2_History ==
    [][/\ Len(history') = Len(evals')
       /\ \A i \in 1..Len(evals') :
              history'[i] = evals'[i].buf \o <<" ", "=", " ">> \o Str(evals'[i].res)
       /\ Len(history') >= Len(history)
       /\ SubSeq(history', 1, Len(history)) = history]_vars

\* Two evaluations with different entries have been recorded.
C2_Witness ==
    /\ Len(history) = 2
    /\ Len(evals) = 2
    /\ history[1] # history[2]

\* C3: plus_minus() applied twice in a row returns the buffer to the text
\* it had before the first application, whatever that text was.
C3_ToggleTwice ==
    [][(last_event.op = "plus_minus" /\ last_event'.op = "plus_minus")
           => operator' = last_event.buf]_vars

\* C4: the history list surface always holds exactly the recorded history
\* entries, in order, whatever the mode flag was when they were recorded.
C4_ListHoldsHistory == history_list = history

\* C5: when it succeeds, memory_add() adds the value of the buffer (0 for
\* an empty buffer) to the memory register, memory_subtract() subtracts it,
\* and the buffer is empty afterwards.
C5_MemoryUpdate ==
    [][\A h \in {"memory_add", "memory_subtract"} :
           LET value == IF operator = <<>> THEN IntV(0) ELSE PyEval(operator)
               new == BinOp(IF h = "memory_add" THEN "+" ELSE "-", memory, value)
           IN  (last_event'.op = h /\ ~Bad(value) /\ ~Bad(new))
                   => (memory' = new /\ operator' = <<>>)]_vars

\* memory_subtract() has just taken 4 from a register that held 9.
C5_Witness ==
    /\ last_event.op = "memory_subtract"
    /\ last_event.buf = <<"4">>
    /\ memory = IntV(5)
    /\ operator = <<>>

\* C6: when the evaluation of the buffer inside memory_add() or
\* memory_subtract() fails, the display shows "Error", the buffer is empty
\* and the memory register keeps its value.
C6_MemoryFailure ==
    [][(/\ last_event'.op \in {"memory_add", "memory_subtract"}
        /\ operator # <<>>
        /\ PyEval(operator) = Fail)
           => (display' = ErrorText /\ operator' = <<>> /\ memory' = memory)]_vars

\* memory_add() has just failed on the buffer "/" with 1 in the register.
C6_Witness ==
    /\ last_event.op = "memory_add"
    /\ last_event.buf = <<"/">>
    /\ memory = IntV(1)
    /\ display = ErrorText
    /\ operator = <<>>

\* C7: the memory register changes only in memory_add(), memory_subtract()
\* and memory_clear(); clearing the buffer, evaluating and every other
\* handler leave it as it was.
C7_MemoryWriters ==
    [][memory' # memory
           => last_event'.op \in {"memory_add", "memory_subtract", "memory_clear"}]_vars

\* clear_all() has just emptied a buffer while the register held a value.
C7_Witness ==
    /\ last_event.op = "clear_all"
    /\ last_event.buf # <<>>
    /\ memory # IntV(0)
    /\ operator = <<>>

\* C8 as stated: the display always shows the buffer, the most recent
\* evaluation result or "Error".
C8_DisplayAsStated ==
    \/ display = operator
    \/ display = ErrorText
    \/ evals # <<>> /\ display = TkStr(last_result)

\* C8: the display always shows the buffer, the most recent evaluation
\* result, "Error", "Memory Cleared" or "M: " followed by the memory
\* register.
C8_Display ==
    \/ display = operator
    \/ display = ErrorText
    \/ evals # <<>> /\ display = TkStr(last_result)
    \/ display = <<"M", "e", "m", "o", "r", "y", " ", "C", "l", "e", "a", "r", "e", "d">>
    \/ display = <<"M", ":", " ">> \o Str(memory)

\* The display shows the register after memory_add() while the buffer is
\* empty and no evaluation has been recorded.
C8_Witness ==
    /\ last_event.op = "memory_add"
    /\ display = <<"M", ":", " ", "9">>
    /\ operator = <<>>
    /\ evals = <<>>

C10_Backspace ==
    [][last_event'.op = "backspace"
           => IF operator = <<>>
              THEN operator' = <<>>
              ELSE /\ Len(operator') = Len(operator) - 1
                   /\ \A i \in 1..Len(operator') : operator'[i] = operator[i]]_vars

\* backspace() has just removed one character, the last '0' of the "/100"
\* written for '%'.
C10_Witness ==
    /\ last_event.op = "backspace"
    /\ last_event.buf = <<"4", "/", "1", "0", "0">>
    /\ operator = <<"4", "/", "1", "0">>

\* C11 as stated: the result of evaluating a buffer that starts with a
\* trigonometric token is the value of the variant of the angle mode in
\* force when calculate() runs, whatever the mode was when the token was
\* written.
C11_ModeAtEvaluation ==
    [][\A f \in {"sin", "cos", "tan"} : \A m \in {"rad", "deg"} :
           LET tok == FunctionText(f, m)
               rest == SubSeq(operator, Len(tok) + 1, Len(operator))
           IN  (/\ last_event'.op = "calculate"
                /\ Len(operator) >= Len(tok)
                /\ SubSeq(operator, 1, Len(tok)) = tok
                /\ ~Bad(PyEval(operator))
                /\ ~Bad(PyEval(FunctionText(f, angle_mode) \o rest)))
                   => last_result' = PyEval(FunctionText(f, angle_mode) \o rest)]_vars

\* C11: the result of evaluating a buffer that starts with a trigonometric
\* token is the value of the variant whose token is in the buffer, the one
\* of the angle mode in force when the token was written, whatever the
\* angle mode is when calculate() runs.
C11_ModeAtInsertion ==
    [][\A f \in {"sin", "cos", "tan"} : \A m \in {"rad", "deg"} :
           LET tok == FunctionText(f, m)
               rest == SubSeq(operator, Len(tok) + 1, Len(operator))
           IN  (/\ last_event'.op = "calculate"
                /\ Len(operator) >= Len(tok)
                /\ SubSeq(operator, 1, Len(tok)) = tok
                /\ ~Bad(PyEval(tok \o rest)))
                   => last_result' = PyEval(tok \o rest)]_vars

\* sin( 9 0 ) was written in radian mode, the mode was toggled to degrees
\* and '=' gave the radian value 0.8939966636005579, not 1.0.
C11_Witness ==
    /\ last_event.op = "calculate"
    /\ last_event.buf = <<"m", "a", "t", "h", ".", "s", "i", "n", "(", "9", "0", ")">>
    /\ angle_mode = "deg"
    /\ last_result = ConstV("sin(90)", 1)
    /\ operator = <<"0", ".", "8", "9", "3", "9", "9", "6", "6", "6", "3",
                    "6", "0", "0", "5", "5", "7", "9">>

\* C12: append_function writes "deg_sin(", "deg_cos(", "deg_tan(" in degree
\* mode and "math.sin(", "math.cos(", "math.tan(" in radian mode, and the
\* same token in both modes for ln, exp and the square root;
\* toggle_angle_mode() switches between the two modes, so that two
\* applications restore the mode, and leaves the buffer, the display, the
\* memory register, the last result and the history as they were.
C12_AngleMode ==
    [][/\ last_event'.op = "append_function" =>
              LET f == last_event'.arg
              IN  /\ operator' = operator \o
                        (IF f \in {"sin", "cos", "tan"} /\ angle_mode = "deg"
                         THEN <<"d", "e", "g", "_">> \o FuncName(f) \o <<"(">>
                         ELSE <<"m", "a", "t", "h", ".">> \o FuncName(f) \o <<"(">>)
                  /\ angle_mode' = angle_mode
       /\ last_event'.op = "toggle_angle_mode" =>
              /\ angle_mode \in {"rad", "deg"}
              /\ angle_mode' \in {"rad", "deg"} \ {angle_mode}
              /\ UNCHANGED <<operator, display, memory, last_result, history>>
       /\ (last_event.op = "toggle_angle_mode" /\ last_event'.op = "toggle_angle_mode")
              => (angle_mode = "deg") # (angle_mode' = "deg")]_vars

\* The degree token of tan has just been written after the native token of
\* ln, in degree mode.
C12_Witness ==
    /\ last_event.op = "append_function"
    /\ last_event.arg = "tan"
    /\ angle_mode = "deg"
    /\ operator = <<"m", "a", "t", "h", ".", "l", "n", "(",
                    "d", "e", "g", "_", "t", "a", "n", "(">>

\* C13: in every reachable state the last result is the value produced by
\* the most recent successful calculate() (0 if there has been none), and
\* append_ans() appends the text of that value to the buffer and leaves the
\* last result unchanged.
C13_LastResult ==
    [][/\ last_result' = IF evals' = <<>> THEN IntV(0)
                         ELSE evals'[Len(evals')].res
       /\ last_event'.op = "append_ans" =>
              /\ last_result.k # "huge"
              /\ operator' = operator \o Str(last_result)
              /\ last_result' = last_result]_vars

\* C14: memory_recall() appends the text of the memory register to the end
\* of the buffer, shows the new buffer on the display and leaves the memory
\* register unchanged.
C14_MemoryRecall ==
    [][last_event'.op = "memory_recall" =>
           /\ memory.k # "huge"
           /\ operator' = operator \o Str(memory)
           /\ display' = operator'
           /\ memory' = memory]_vars

\* C15: in every reachable state every character of the buffer is a
\* character of the input alphabet (the digits, '.', the operators, the
\* parentheses, '%') or of one of the inserted function and constant tokens.
C15_BufferAlphabet ==
    \A j \in 1..Len(operator) :
        operator[j] \in Digits \cup {".", "+", "-", "*", "/", "(", ")", "%"}
                          \cup {"m", "a", "t", "h", "s", "i", "n", "c", "o",
                                "l", "e", "x", "p", "q", "r", "d", "g", "_"}

\* C16: a key press has exactly the effect of the corresponding operation:
\* a digit, '.', an operator, a parenthesis or '%' appends that character,
\* Return evaluates, BackSpace removes the last character, 'c' or 'C'
\* clears; any other key press, a bare modifier key with no character
\* included, leaves the buffer, the display, the memory register, the last
\* result and the history unchanged.
C16_KeyPress ==
    [][\A k \in KeyEvents :
           key_event(k.char, k.keysym) =>
               IF k.char \in Keys THEN append_to_operator(k.char)
               ELSE IF k.keysym = "Return" THEN calculate
               ELSE IF k.keysym = "BackSpace" THEN backspace
               ELSE IF k.keysym \in {"c", "C"} THEN clear_all
               ELSE UNCHANGED <<operator, display, memory, last_result,
                                history>>]_vars

\* C17: after a successful calculate() the buffer is the text of the result
\* and the display shows the result; an append that follows extends the
\* result text, and a calculate() that follows at once evaluates the result
\* text and records a further history entry for it.
C17_AfterCalculate ==
    [][/\ (last_event'.op = "calculate" /\ Len(evals') = Len(evals) + 1) =>
              /\ operator' = Str(last_result')
              /\ display' = Str(last_result')
       /\ (last_event.op = "calculate" /\ operator # <<>>) =>
              /\ last_event'.op = "append_to_operator" =>
                     operator' = Str(last_result) \o AppendText(last_event'.arg)
              /\ last_event'.op = "calculate" =>
                     /\ last_event'.buf = Str(last_result)
                     /\ Len(history') = Len(history) + 1
                     /\ history'[Len(history')] =
                            Str(last_result) \o <<" ", "=", " ">>
                                \o Str(last_result')]_vars

C19_ClearEntry ==
    [][(\E i \in 2..(Len(operator) - 1) :
            /\ operator[i] \in {"+", "-", "*", "/"}
            /\ operator[i - 1] \in Digits
            /\ operator[i + 1] \in Digits)
           => /\ last_event'.op = "clear_entry" =>
                     /\ operator' # <<>>
                     /\ Len(operator') < Len(operator)
                     /\ operator' = SubSeq(operator, 1, Len(operator'))
              /\ last_event'.op = "clear_all" => operator' = <<>>]_vars

\* C20: memory_add() and memory_subtract() never append to the history and
\* never change the last result, whether their evaluation of the buffer
\* succeeds or fails; a step that does either is a step of calculate().
C20_OnlyCalculateRecords ==
    [][/\ last_event'.op \in {"memory_add", "memory_subtract"} =>
              (history' = history /\ last_result' = last_result)
       /\ (history' # history \/ last_result' # last_result) =>
              last_event'.op = "calculate"]_vars

\* memory_add() has just added the buffer "41", the result 4 of an
\* evaluation followed by the key 1, and the last result is still 4 with
\* its one history entry.
C20_Witness ==
    /\ last_event.op = "memory_add"
    /\ last_event.buf = <<"4", "1">>
    /\ memory = IntV(41)
    /\ last_result = IntV(4)
    /\ history = <<<<"4", " ", "=", " ", "4">>>>

=============================================================================
